---------------------------- MODULE Spec2Model ----------------------------
(***************************************************************************)
(* Model of the ZPLWeb print agent (src/ZPLWeb/main.py, src/ZPLWeb/utils.py) *)
(*                                                                         *)
(* Threads of the program:                                                 *)
(*   - worker threads, one per print_label event, run _handle_print_job    *)
(*     and the completion callback cb;                                     *)
(*   - the GUI thread runs the queued slots (_emit_ack, _connect_socket,   *)
(*     _on_gui_connected, _on_gui_disconnected, _request_missing), the     *)
(*     reconnect timer and the options dialog;                             *)
(*   - the socket.io client runs the connect / disconnect handlers.        *)
(*                                                                         *)
(* Python values: None and SQL NULL are the integer None (-1); a str of a   *)
(* job payload is a sequence of one-character strings; a dict payload is a *)
(* record; the settings api_key and server_url are strings, "" when empty. *)
(* hashlib.sha256 is taken to be collision free: the digest of a byte      *)
(* string is represented by the byte string itself.                        *)
(***************************************************************************)
EXTENDS Integers, Sequences, FiniteSets, TLC

\* ------------------------------------------------------------------ bounds
NumWorkers == 2
NumProcs == 3
MaxRows == 2
MaxQueue == 2
MaxJobId == 1
MaxTime == 62

\* ------------------------------------------------------- program constants
_fingerprint_ttl == 60

None == 0 - 1

Workers == 1..NumWorkers

Str_A == <<"A">>
Str_A1 == <<"A", "1">>
Str_Z == <<"Z">>

\* the payload of a print_label event: data.get("job_id"), "invoice", "pcs", "data"
JobData(id, inv, n, zpl) == [job_id |-> id, invoice |-> inv, pcs |-> n, data |-> zpl]

NoJob == JobData(None, <<>>, None, <<>>)

\* jobs carrying a server-assigned identifier (0 is an identifier the server may assign)
IdJobs == {JobData(j, Str_A, 2, Str_Z) : j \in 0..MaxJobId}

\* jobs without identifier: invoice "A1" x2, invoice "A" x12, invoice "A" x2
FpJobs ==
    { JobData(None, Str_A1, 2, Str_Z),
      JobData(None, Str_A, 12, Str_Z),
      JobData(None, Str_A, 2, Str_Z) }

\* the id-less job of the failed-print scenario: invoice "A1" x12
RetryJobs == {JobData(None, Str_A1, 12, Str_Z)}

\* instants of the wall clock (seconds) at which events may happen
Times == {t \in {1, 2, 31, 61, 62, 63} : t <= MaxTime}

\* --------------------------------------------------------- Python helpers
\* truth value of an int-or-None (`if job_id:`)
Truthy(x) == x # None /\ x # 0

Digit(d) == <<"0", "1", "2", "3", "4", "5", "6", "7", "8", "9">>[d + 1]

RECURSIVE PyStr(_)
\* str(n) for a non-negative int
PyStr(n) == IF n < 10 THEN <<Digit(n)>> ELSE PyStr(n \div 10) \o <<Digit(n % 10)>>

\* hashlib.sha256(...).hexdigest(), collision free
Sha256Hex(bytes) == bytes

\* utils._make_fingerprint: the three parts are fed to the digest back to back
_make_fingerprint(invoice, pcs, zpl) ==
    Sha256Hex(invoice \o (IF Truthy(pcs) THEN PyStr(pcs) ELSE <<>>) \o zpl)

VARIABLES
    prints,                \* table prints of the SQLite file, in id order
    _seen_jobs,            \* MainWindow._seen_jobs
    _inflight,             \* MainWindow._inflight
    _recent_fingerprints,  \* MainWindow._recent_fingerprints: fingerprint -> timestamp
    _job_lock,             \* MainWindow._job_lock: 0 when free, else the worker holding it
    pc,                    \* position of each worker thread
    job,                   \* the data dict each worker thread was started with
    guiq,                  \* Qt event queue of the GUI thread (queued signal deliveries)
    guiPc,                 \* position of the GUI thread
    guiJob,                \* job_id argument of the _emit_ack call in progress
    sio_connected,         \* self.sio.connected
    _connecting,           \* MainWindow._connecting
    now,                   \* wall clock
    wire,                  \* messages handed to sio.emit by the latest step of the GUI thread
    sunkOld,               \* history: job_ids the Print Sink had printed before the latest restart
    owed,                  \* history: per job_id selected by the latest flush, the
                           \* acknowledgments not yet emitted on that connection
    racing,                \* history: workers started while another worker had the same
                           \* job_id reserved and its Print Sink call unfinished
    lastFail,              \* history: per id-less job, when its Print Sink call last failed
    lastLet,               \* history: per id-less job, when it was last let through to
                           \* print in this process (0: never)
    prefs,                 \* self.api_key and self.server_url, as loaded by _load_prefs
    timer_active,          \* self._reconnect_timer.isActive()
    re_btn,                \* self.re_btn.isEnabled()
    statq,                 \* queued deliveries of gui_connected / gui_disconnected
    missing_pending,       \* pending QTimer.singleShot(0, self._request_missing) calls
    missing_btn,           \* self.missing_btn.isEnabled()
    cooldowns,             \* pending QTimer.singleShot(2000, ...) re-enable calls, oldest
                           \* first; history: TRUE when the request started with it was sent
    lock_file,             \* utils._LOCK_FILE: NoFile, or the file's creator and text
    lpc,                   \* per process: its position in ensure_single_instance
    existing_pid           \* per process: the local existing_pid

vars == <<prints, _seen_jobs, _inflight, _recent_fingerprints, _job_lock, pc, job,
          guiq, guiPc, guiJob, sio_connected, _connecting, now, wire, sunkOld, owed,
          racing, lastLet, lastFail, prefs, timer_active, re_btn, statq, missing_pending,
          missing_btn, cooldowns, lock_file, lpc, existing_pid>>

\* groups of variables an action leaves alone
dbVars == <<prints>>
dedupeVars == <<_seen_jobs, _inflight, _recent_fingerprints, _job_lock>>
workerVars == <<pc, job, racing>>
guiVars == <<guiq, guiPc, guiJob, wire>>
sioVars == <<sio_connected, _connecting>>
histVars == <<sunkOld, owed, lastLet, lastFail>>
coolVars == <<missing_btn, cooldowns>>
lockVars == <<lock_file, lpc, existing_pid>>
uiVars == <<prefs, timer_active, re_btn, statq, missing_pending, coolVars>>

\* ------------------------------------------------------------ the database
\* a row of table prints (id is the position; zpl is the payload column)
Row(d) == [job_id |-> d.job_id, invoice |-> d.invoice, pcs |-> d.pcs, zpl |-> d.data,
           acked |-> 0]

RowsOf(j) == {i \in DOMAIN prints : prints[i].job_id = j}

MaxOf(S) == CHOOSE m \in S : \A x \in S : x <= m

\* SELECT acked FROM prints WHERE job_id=? ORDER BY id DESC LIMIT 1; bool(row and row[0])
_is_job_acked(j) == RowsOf(j) # {} /\ prints[MaxOf(RowsOf(j))].acked # 0

\* mutant: the flush query testing the job_id for truth instead of NULL
Mut_IsPending(r) == Truthy(r.job_id) /\ r.acked = 0

\* the WHERE clause of _flush_pending_acks: job_id IS NOT NULL AND acked=0
IsPending(r) == r.job_id # None /\ r.acked = 0

\* SELECT job_id FROM prints WHERE job_id IS NOT NULL AND acked=0
PendingAcks ==
    LET rows == SelectSeq(prints, IsPending)
    IN  [i \in DOMAIN rows |-> rows[i].job_id]

\* mutant: the UPDATE keyed by the row id instead of the job_id
Mut_UpdateAcked(j) ==
    [i \in DOMAIN prints |-> IF i = j THEN [prints[i] EXCEPT !.acked = 1] ELSE prints[i]]

\* UPDATE prints SET acked=1 WHERE job_id=?
UpdateAcked(j) ==
    [i \in DOMAIN prints |->
        IF prints[i].job_id = j THEN [prints[i] EXCEPT !.acked = 1] ELSE prints[i]]

\* SELECT DISTINCT job_id FROM prints WHERE job_id IS NOT NULL
StoredJobIds == {prints[i].job_id : i \in {k \in DOMAIN prints : prints[k].job_id # None}}

\* --------------------------------------------------------- signals, messages
AckEvent(j) == [sig |-> "ack_sig", arg |-> j]
ConnectEvent == [sig |-> "connect_socket", arg |-> None]

\* the payload handed to sio.emit("print_label_ack", ...)
AckMessage(j) == [event |-> "print_label_ack", data |-> [job_id |-> j]]

Busy == {w \in Workers : pc[w] # "idle"}

\* room in the bounded table for the row a new job may append
RoomFor(d) ==
    \/ Len(prints) + Cardinality(Busy) < MaxRows
    \/ Truthy(d.job_id) /\ d.job_id \in _seen_jobs

\* ------------------------------------------------------------ worker threads
\* on_print_label: Thread(target=self._handle_print_job, args=(data,)).start()
on_print_label(w, d) ==
    /\ sio_connected
    /\ pc[w] = "idle"
    /\ RoomFor(d)
    /\ pc' = [pc EXCEPT ![w] = "start"]
    /\ job' = [job EXCEPT ![w] = d]
    /\ racing' = IF \E v \in Workers \ {w} :
                        pc[v] = "print" /\ Truthy(d.job_id) /\ job[v].job_id = d.job_id
                 THEN racing \cup {w}
                 ELSE racing
    /\ UNCHANGED <<dbVars, dedupeVars, guiVars, sioVars, now, histVars,
                   uiVars, lockVars>>

\* `with self._job_lock:` at the top of _handle_print_job
AcquireJobLock(w) ==
    /\ pc[w] = "start"
    /\ _job_lock = 0
    /\ _job_lock' = w
    /\ pc' = [pc EXCEPT ![w] = "locked"]
    /\ UNCHANGED <<dbVars, _seen_jobs, _inflight, _recent_fingerprints, job, racing,
                   guiVars, sioVars, now, histVars,
                   uiVars, lockVars>>

RECURSIVE ExpireKeys(_, _, _, _)
\* `for key in list(store): if now - store[key] > ttl: del store[key]`
ExpireKeys(store, keys, ttl, t) ==
    IF keys = {}
    THEN store
    ELSE LET key == CHOOSE k \in keys : TRUE
         IN  ExpireKeys(IF t - store[key] > ttl
                        THEN [k \in DOMAIN store \ {key} |-> store[k]]
                        ELSE store,
                        keys \ {key}, ttl, t)

\* utils.expire_stale_jobs(store, ttl, now): the store after the purge
expire_stale_jobs(store, ttl, t) == ExpireKeys(store, DOMAIN store, ttl, t)

\* mutant: a cleanup loop that also drops the entries exactly ttl old
Mut_Purged == [fp \in {k \in DOMAIN _recent_fingerprints :
                          ~(now - _recent_fingerprints[k] >= _fingerprint_ttl)}
                  |-> _recent_fingerprints[fp]]

\* the fingerprints left by the cleanup loop
Purged == [fp \in {k \in DOMAIN _recent_fingerprints :
                      ~(now - _recent_fingerprints[k] > _fingerprint_ttl)}
              |-> _recent_fingerprints[fp]]

\* `last and now - last < self._fingerprint_ttl`, after the cleanup
IsDuplicate(fp) ==
    /\ fp \in DOMAIN Purged
    /\ Purged[fp] # 0
    /\ now - Purged[fp] < _fingerprint_ttl

\* the worker thread ends
Finish(w) ==
    /\ pc' = [pc EXCEPT ![w] = "idle"]
    /\ job' = [job EXCEPT ![w] = NoJob]
    /\ racing' = racing \ {w}

\* mutant: the critical section without the _inflight check
Mut_DedupeById(w, j) ==
    IF j \in _seen_jobs
    THEN /\ IF ~_is_job_acked(j)
            THEN /\ Len(guiq) < MaxQueue
                 /\ guiq' = Append(guiq, AckEvent(j))
                 /\ pc' = [pc EXCEPT ![w] = "ignored_ack_pending"]
            ELSE /\ guiq' = guiq
                 /\ pc' = [pc EXCEPT ![w] = "ignored_printed"]
         /\ UNCHANGED _inflight
    ELSE /\ _inflight' = _inflight \cup {j}
         /\ pc' = [pc EXCEPT ![w] = "print"]
         /\ UNCHANGED guiq

\* the branch of the critical section for a job with a (truthy) job_id; the worker
\* stops at the log line of its early return
DedupeById(w, j) ==
    IF j \in _inflight
    THEN /\ pc' = [pc EXCEPT ![w] = "ignored_inflight"]
         /\ UNCHANGED <<_inflight, guiq>>
    ELSE IF j \in _seen_jobs
    THEN /\ IF ~_is_job_acked(j)
            THEN /\ Len(guiq) < MaxQueue
                 /\ guiq' = Append(guiq, AckEvent(j))
                 /\ pc' = [pc EXCEPT ![w] = "ignored_ack_pending"]
            ELSE /\ guiq' = guiq
                 /\ pc' = [pc EXCEPT ![w] = "ignored_printed"]
         /\ UNCHANGED _inflight
    ELSE /\ _inflight' = _inflight \cup {j}
         /\ pc' = [pc EXCEPT ![w] = "print"]
         /\ UNCHANGED guiq

\* mutant: the fingerprint path letting the job through without recording it
Mut_DedupeByFingerprint(w) ==
    LET fp == _make_fingerprint(job[w].invoice, job[w].pcs, job[w].data)
    IN  IF IsDuplicate(fp)
        THEN /\ _recent_fingerprints' = Purged
             /\ pc' = [pc EXCEPT ![w] = "ignored_duplicate"]
             /\ UNCHANGED <<lastLet, lastFail>>
        ELSE /\ _recent_fingerprints' = Purged
             /\ pc' = [pc EXCEPT ![w] = "print"]
             /\ lastLet' = [d \in DOMAIN lastLet |-> IF d = job[w] THEN now ELSE lastLet[d]]
             /\ lastFail' = [d \in DOMAIN lastFail |-> IF d = job[w] THEN 0 ELSE lastFail[d]]

\* the branch of the critical section for a job without job_id
DedupeByFingerprint(w) ==
    LET fp == _make_fingerprint(job[w].invoice, job[w].pcs, job[w].data)
    IN  IF IsDuplicate(fp)
        THEN /\ _recent_fingerprints' = Purged
             /\ pc' = [pc EXCEPT ![w] = "ignored_duplicate"]
             /\ UNCHANGED <<lastLet, lastFail>>
        ELSE /\ _recent_fingerprints' =
                    [k \in DOMAIN Purged \cup {fp} |-> IF k = fp THEN now ELSE Purged[k]]
             /\ pc' = [pc EXCEPT ![w] = "print"]
             /\ lastLet' = [d \in DOMAIN lastLet |-> IF d = job[w] THEN now ELSE lastLet[d]]
             /\ lastFail' = [d \in DOMAIN lastFail |-> IF d = job[w] THEN 0 ELSE lastFail[d]]

\* mutant: the dedupe section going on to the Print Sink with the lock still held
Mut_Dedupe(w) ==
    /\ pc[w] = "locked"
    /\ _job_lock' = IF Truthy(job[w].job_id) /\ job[w].job_id \notin _inflight \cup _seen_jobs
                   THEN w ELSE 0
    /\ IF Truthy(job[w].job_id)
       THEN DedupeById(w, job[w].job_id) /\ UNCHANGED <<_recent_fingerprints, lastLet, lastFail>>
       ELSE DedupeByFingerprint(w) /\ UNCHANGED <<_inflight, guiq>>
    /\ UNCHANGED <<dbVars, _seen_jobs, job, racing, guiPc, guiJob, wire, sioVars, now,
                   sunkOld, owed,
                   uiVars, lockVars>>

\* _handle_print_job, the body of `with self._job_lock:`; leaving it releases the lock
Dedupe(w) ==
    /\ pc[w] = "locked"
    /\ _job_lock' = 0
    /\ IF Truthy(job[w].job_id)
       THEN DedupeById(w, job[w].job_id) /\ UNCHANGED <<_recent_fingerprints, lastLet, lastFail>>
       ELSE DedupeByFingerprint(w) /\ UNCHANGED <<_inflight, guiq>>
    /\ UNCHANGED <<dbVars, _seen_jobs, job, racing, guiPc, guiJob, wire, sioVars, now,
                   sunkOld, owed,
                   uiVars, lockVars>>

\* the early `return` of _handle_print_job after its log line
Return(w) ==
    /\ pc[w] \in {"ignored_inflight", "ignored_ack_pending", "ignored_printed",
                  "ignored_duplicate"}
    /\ Finish(w)
    /\ UNCHANGED <<dbVars, dedupeVars, guiVars, sioVars, now, histVars,
                   uiVars, lockVars>>

\* _print_zpl: the printer calls succeed (or are skipped off Windows) or raise; either
\* way cb is entered
PrintZpl(w) ==
    /\ pc[w] = "print"
    /\ \E ok \in BOOLEAN :
          IF ok
          THEN pc' = [pc EXCEPT ![w] = "cb_ok"] /\ UNCHANGED lastFail
          ELSE /\ pc' = [pc EXCEPT ![w] = "cb_fail"]
               /\ lastFail' = [d \in DOMAIN lastFail |->
                                  IF d = job[w] THEN now ELSE lastFail[d]]
    /\ UNCHANGED <<dbVars, dedupeVars, job, racing, guiVars, sioVars, now,
                   sunkOld, owed, lastLet, uiVars, lockVars>>

\* cb: `with self._job_lock:` of either branch
CbAcquireJobLock(w) ==
    /\ pc[w] \in {"cb_ok", "cb_fail", "cb_exc"}
    /\ _job_lock = 0
    /\ _job_lock' = w
    /\ pc' = [pc EXCEPT ![w] = IF pc[w] = "cb_ok" THEN "cb_ok_locked"
                                ELSE IF pc[w] = "cb_fail" THEN "cb_fail_locked"
                                ELSE "cb_exc_locked"]
    /\ UNCHANGED <<dbVars, _seen_jobs, _inflight, _recent_fingerprints, job, racing,
                   guiVars, sioVars, now, histVars,
                   uiVars, lockVars>>

\* mutant: cb(True, msg) adding to _seen_jobs without the discard from _inflight
Mut_CbMarkSeen(w) ==
    /\ pc[w] = "cb_ok_locked"
    /\ IF Truthy(job[w].job_id)
       THEN /\ _inflight' = _inflight
            /\ _seen_jobs' = _seen_jobs \cup {job[w].job_id}
       ELSE UNCHANGED <<_inflight, _seen_jobs>>
    /\ _job_lock' = 0
    /\ pc' = [pc EXCEPT ![w] = "store"]
    /\ UNCHANGED <<dbVars, _recent_fingerprints, job, racing, guiVars, sioVars, now,
                   histVars,
                   uiVars, lockVars>>

\* cb(True, msg): under the lock, move job_id from _inflight to _seen_jobs
CbMarkSeen(w) ==
    /\ pc[w] = "cb_ok_locked"
    /\ IF Truthy(job[w].job_id)
       THEN /\ _inflight' = _inflight \ {job[w].job_id}
            /\ _seen_jobs' = _seen_jobs \cup {job[w].job_id}
       ELSE UNCHANGED <<_inflight, _seen_jobs>>
    /\ _job_lock' = 0
    /\ pc' = [pc EXCEPT ![w] = "store"]
    /\ UNCHANGED <<dbVars, _recent_fingerprints, job, racing, guiVars, sioVars, now,
                   histVars,
                   uiVars, lockVars>>

\* cb(True, msg): self._store_print(job_id, inv, pcs, zpl)
_store_print(w) ==
    /\ pc[w] = "store"
    /\ Len(prints) < MaxRows
    /\ prints' = Append(prints, Row(job[w]))
    /\ IF Truthy(job[w].job_id)
       THEN pc' = [pc EXCEPT ![w] = "ack"] /\ UNCHANGED <<job, racing>>
       ELSE Finish(w)
    /\ UNCHANGED <<dedupeVars, guiVars, sioVars, now, histVars,
                   uiVars, lockVars>>

\* _store_print raises (store unavailable): inside the try of _print_zpl the exception
\* is caught and cb(False, ...) is called; off Windows it ends the worker thread
StorePrintRaises(w) ==
    /\ pc[w] = "store"
    /\ \E caught \in BOOLEAN :
          IF caught
          THEN pc' = [pc EXCEPT ![w] = "cb_exc"] /\ UNCHANGED <<job, racing>>
          ELSE Finish(w)
    /\ UNCHANGED <<dbVars, dedupeVars, guiVars, sioVars, now, histVars,
                   uiVars, lockVars>>

\* cb(True, msg): `if job_id: self.ack_sig.emit(job_id)` (queued to the GUI thread)
CbAckSig(w) ==
    /\ pc[w] = "ack"
    /\ Len(guiq) < MaxQueue
    /\ guiq' = Append(guiq, AckEvent(job[w].job_id))
    /\ Finish(w)
    /\ UNCHANGED <<dbVars, dedupeVars, guiPc, guiJob, wire, sioVars, now, histVars,
                   uiVars, lockVars>>

\* mutant: cb(False, msg) without the discard
Mut_CbRelease(w) ==
    /\ pc[w] \in {"cb_fail_locked", "cb_exc_locked"}
    /\ _inflight' = _inflight
    /\ _job_lock' = 0
    /\ Finish(w)
    /\ UNCHANGED <<dbVars, _seen_jobs, _recent_fingerprints, guiVars, sioVars, now,
                   histVars,
                   uiVars, lockVars>>

\* cb(False, msg): under the lock, release the reservation
CbRelease(w) ==
    /\ pc[w] \in {"cb_fail_locked", "cb_exc_locked"}
    /\ _inflight' = IF Truthy(job[w].job_id) THEN _inflight \ {job[w].job_id}
                    ELSE _inflight
    /\ _job_lock' = 0
    /\ Finish(w)
    /\ UNCHANGED <<dbVars, _seen_jobs, _recent_fingerprints, guiVars, sioVars, now,
                   histVars,
                   uiVars, lockVars>>

\* ---------------------------------------------------------------- GUI thread
NoOwed == [j \in {} |-> 0]

\* one acknowledgment fewer is owed for j once sio.emit was called for j
Paid(j) ==
    [k \in DOMAIN owed |-> IF k = j /\ owed[k] > 0 - 1 THEN owed[k] - 1 ELSE owed[k]]

\* mutant: the UPDATE placed outside `if self.sio.connected:`
Mut_emit_ack(j) ==
    IF ~Truthy(j)
    THEN /\ wire' = <<>>
         /\ UNCHANGED <<guiPc, guiJob, owed>>
    ELSE /\ guiJob' = j
         /\ guiPc' = "ack_update"
         /\ IF sio_connected
            THEN wire' = <<AckMessage(j)>> /\ owed' = Paid(j)
            ELSE wire' = <<>> /\ UNCHANGED owed

\* _emit_ack up to and including the sio.emit call: a falsy job_id returns at once;
\* when connected the emit returns or raises; when not connected nothing is sent
_emit_ack(j) ==
    IF ~Truthy(j)
    THEN /\ wire' = <<>>
         /\ UNCHANGED <<guiPc, guiJob, owed>>
    ELSE /\ guiJob' = j
         /\ IF sio_connected
            THEN \E raises \in BOOLEAN :
                    IF raises
                    THEN /\ wire' = <<>>
                         /\ guiPc' = "ack_error"
                         /\ owed' = Paid(j)
                    ELSE /\ wire' = <<AckMessage(j)>>
                         /\ guiPc' = "ack_update"
                         /\ owed' = Paid(j)
            ELSE /\ wire' = <<>>
                 /\ guiPc' = "ack_pending"
                 /\ UNCHANGED owed

\* the GUI thread takes the next queued ack_sig delivery and calls _emit_ack
GuiEmitAck ==
    /\ guiPc = "idle"
    /\ guiq # <<>>
    /\ Head(guiq).sig = "ack_sig"
    /\ guiq' = Tail(guiq)
    /\ _emit_ack(Head(guiq).arg)
    /\ UNCHANGED <<dbVars, dedupeVars, workerVars, sioVars, now, sunkOld, lastLet, lastFail,
                   uiVars, lockVars>>

\* _emit_ack after sio.emit returned: UPDATE prints SET acked=1 WHERE job_id=?
EmitAckUpdate ==
    /\ guiPc = "ack_update"
    /\ prints' = UpdateAcked(guiJob)
    /\ guiPc' = "idle"
    /\ guiJob' = None
    /\ wire' = <<>>
    /\ UNCHANGED <<dedupeVars, workerVars, guiq, sioVars, now, histVars,
                   uiVars, lockVars>>

\* _emit_ack: the log line "Ack error ..." of the except branch, or "Ack pending ..."
EmitAckLog ==
    /\ guiPc \in {"ack_error", "ack_pending"}
    /\ guiPc' = "idle"
    /\ guiJob' = None
    /\ wire' = <<>>
    /\ UNCHANGED <<dbVars, dedupeVars, workerVars, guiq, sioVars, now, histVars,
                   uiVars, lockVars>>

\* the default of the server_url setting
SERVER_URL == "https://colemanbros.co.uk"

\* the settings before the first save: no api_key, the default server_url
NoKey == [api_key |-> "", server_url |-> SERVER_URL]

\* what OptionsDialog._save can store: a non-empty api_key, any server_url
Saved == [api_key : {"key1", "key2"}, server_url : {"", SERVER_URL}]

\* `not self.api_key or not self.server_url` is false for the settings p
Configured(p) == p.api_key # "" /\ p.server_url # ""

\* the disconnect handler of _register_handlers: gui_disconnected.emit() and the start
\* of the reconnect timer unless it is active. On the GUI thread the timer starts; on
\* the socket.io client's thread Qt may refuse to start a timer that lives in the GUI
\* thread, so the timer starts or stays as it was
DisconnectHandlerOn(guiThread) ==
    /\ Len(statq) < MaxQueue
    /\ sio_connected' = FALSE
    /\ owed' = NoOwed
    /\ statq' = Append(statq, "gui_disconnected")
    /\ IF guiThread
       THEN timer_active' = TRUE
       ELSE timer_active' \in {timer_active, TRUE}

\* the disconnect handler as run by sio.disconnect() on the GUI thread
DisconnectHandler == DisconnectHandlerOn(TRUE)

\* _connect_socket without the early return on missing api_key or URL
Mut_ConnectSocketWith(p) ==
    /\ IF sio_connected
       THEN DisconnectHandler
       ELSE UNCHANGED <<sio_connected, owed, statq, timer_active>>
    /\ IF _connecting
       THEN UNCHANGED <<_connecting, guiPc>>
       ELSE /\ _connecting' = TRUE
            /\ guiPc' = "connecting"
    /\ wire' = <<>>

\* _connect_socket with the settings p in self.api_key / self.server_url, up to the
\* call of sio.connect
ConnectSocketWith(p) ==
    IF ~Configured(p)
    THEN /\ wire' = <<>>
         /\ UNCHANGED <<sio_connected, owed, statq, timer_active, _connecting, guiPc>>
    ELSE /\ IF sio_connected
            THEN DisconnectHandler
            ELSE UNCHANGED <<sio_connected, owed, statq, timer_active>>
         /\ IF _connecting
            THEN UNCHANGED <<_connecting, guiPc>>
            ELSE /\ _connecting' = TRUE
                 /\ guiPc' = "connecting"
         /\ wire' = <<>>

\* _connect_socket
_connect_socket == ConnectSocketWith(prefs)

\* QTimer.singleShot(0, self._connect_socket) of __init__, run from the queue
GuiConnectSocket ==
    /\ guiPc = "idle"
    /\ guiq # <<>>
    /\ Head(guiq).sig = "connect_socket"
    /\ guiq' = Tail(guiq)
    /\ _connect_socket
    /\ UNCHANGED <<dbVars, dedupeVars, workerVars, guiJob, now, sunkOld, lastLet, lastFail,
                   prefs, re_btn, missing_pending,
                   coolVars, lockVars>>

\* _manual_reconnect: the reload button, clickable while enabled
_manual_reconnect ==
    /\ guiPc = "idle"
    /\ re_btn
    /\ _connect_socket
    /\ UNCHANGED <<dbVars, dedupeVars, workerVars, guiq, guiJob, now, sunkOld, lastLet, lastFail,
                   prefs, re_btn, missing_pending,
                   coolVars, lockVars>>

\* _reconnect_tick: the timeout of the reconnect timer
_reconnect_tick ==
    /\ guiPc = "idle"
    /\ timer_active
    /\ IF ~sio_connected /\ ~_connecting /\ Configured(prefs)
       THEN _connect_socket
       ELSE UNCHANGED <<sio_connected, owed, statq, timer_active, _connecting, guiPc,
                        wire>>
    /\ UNCHANGED <<dbVars, dedupeVars, workerVars, guiq, guiJob, now, sunkOld, lastLet, lastFail,
                   prefs, re_btn, missing_pending,
                   coolVars, lockVars>>

\* _open_options with the dialog accepted: _save has stored p, _load_prefs reads it
\* back and _reconnect.emit() calls _connect_socket
_open_options(p) ==
    /\ guiPc = "idle"
    /\ prefs' = p
    /\ ConnectSocketWith(p)
    /\ UNCHANGED <<dbVars, dedupeVars, workerVars, guiq, guiJob, now, sunkOld, lastLet, lastFail,
                   re_btn, missing_pending,
                   coolVars, lockVars>>

\* _on_gui_connected, the queued slot of gui_connected
_on_gui_connected ==
    /\ guiPc = "idle"
    /\ statq # <<>>
    /\ Head(statq) = "gui_connected"
    /\ statq' = Tail(statq)
    /\ re_btn' = FALSE
    /\ timer_active' = FALSE
    /\ wire' = <<>>
    /\ UNCHANGED <<dbVars, dedupeVars, workerVars, guiq, guiPc, guiJob, sioVars, now,
                   histVars, prefs, missing_pending,
                   coolVars, lockVars>>

\* _on_gui_disconnected, the queued slot of gui_disconnected
_on_gui_disconnected ==
    /\ guiPc = "idle"
    /\ statq # <<>>
    /\ Head(statq) = "gui_disconnected"
    /\ statq' = Tail(statq)
    /\ re_btn' = TRUE
    /\ timer_active' = TRUE
    /\ wire' = <<>>
    /\ UNCHANGED <<dbVars, dedupeVars, workerVars, guiq, guiPc, guiJob, sioVars, now,
                   histVars, prefs, missing_pending,
                   coolVars, lockVars>>

MissingMessage(k) == [event |-> "request_missing_prints", data |-> [api_key |-> k]]

\* _request_missing: nothing happens when not connected or without api_key; else
\* missing_btn is disabled, its re-enabling is scheduled 2000 ms ahead, and sio.emit
\* returns or raises (caught and logged)
_request_missing ==
    IF ~sio_connected \/ prefs.api_key = ""
    THEN /\ wire' = <<>>
         /\ UNCHANGED coolVars
    ELSE \E raises \in BOOLEAN :
            /\ missing_btn' = FALSE
            /\ cooldowns' = Append(cooldowns, ~raises)
            /\ wire' = IF raises THEN <<>> ELSE <<MissingMessage(prefs.api_key)>>

\* the call of _request_missing scheduled by the connect handler, run by the GUI thread
GuiRequestMissing ==
    /\ guiPc = "idle"
    /\ missing_pending > 0
    /\ Len(cooldowns) < MaxQueue
    /\ missing_pending' = missing_pending - 1
    /\ _request_missing
    /\ UNCHANGED <<dbVars, dedupeVars, workerVars, guiq, guiPc, guiJob, sioVars, now,
                   histVars, prefs, timer_active, re_btn, statq, lockVars>>

\* a manual trigger of _request_missing: a click on missing_btn while it is enabled,
\* or the menu action Tools > Print Missing
ManualRequestMissing(menu) ==
    /\ guiPc = "idle"
    /\ menu \/ missing_btn
    /\ Len(cooldowns) < MaxQueue
    /\ _request_missing
    /\ UNCHANGED <<dbVars, dedupeVars, workerVars, guiq, guiPc, guiJob, sioVars, now,
                   histVars, prefs, timer_active, re_btn, statq, missing_pending, lockVars>>

\* the oldest QTimer.singleShot(2000, lambda: self.missing_btn.setEnabled(True)) fires
CooldownFires ==
    /\ guiPc = "idle"
    /\ cooldowns # <<>>
    /\ cooldowns' = Tail(cooldowns)
    /\ missing_btn' = TRUE
    /\ wire' = <<>>
    /\ UNCHANGED <<dbVars, dedupeVars, workerVars, guiq, guiPc, guiJob, sioVars, now,
                   histVars, prefs, timer_active, re_btn, statq, missing_pending, lockVars>>

\* the number of rows the flush selects for job_id j
PendingCount(j) == Cardinality({i \in DOMAIN PendingAcks : PendingAcks[i] = j})

\* _flush_pending_acks: one ack_sig.emit(jid) per selected row
FlushSignals == [i \in DOMAIN PendingAcks |-> AckEvent(PendingAcks[i])]

\* QTimer.singleShot(0, self._request_missing) called on the socket.io client's thread:
\* the call reaches the GUI thread's event loop (n + 1 pending), or the one-shot timer
\* is created in a thread without event loop and never fires (n pending)
SingleShotFromHandler(n) == {n, n + 1}

\* sio.connect succeeds; the connect handler runs: gui_connected.emit(),
\* _flush_pending_acks, _connecting = False, QTimer.singleShot(0, _request_missing)
SioConnect ==
    /\ guiPc = "connecting"
    /\ Len(guiq) + Len(PendingAcks) <= MaxQueue
    /\ Len(statq) < MaxQueue
    /\ missing_pending < MaxQueue
    /\ sio_connected' = TRUE
    /\ statq' = Append(statq, "gui_connected")
    /\ guiq' = guiq \o FlushSignals
    /\ owed' = [j \in {PendingAcks[i] : i \in DOMAIN PendingAcks} |-> PendingCount(j)]
    /\ _connecting' = FALSE
    /\ missing_pending' \in SingleShotFromHandler(missing_pending)
    /\ guiPc' = "idle"
    /\ UNCHANGED <<dbVars, dedupeVars, workerVars, guiJob, wire, now, sunkOld, lastLet, lastFail,
                   prefs, timer_active, re_btn,
                   coolVars, lockVars>>

\* the transport is up but _flush_pending_acks raises inside the connect handler (store
\* unavailable): gui_connected was emitted, the lines after the flush do not run, the
\* client logs the exception and sio.connect returns with the connection up
ConnectHandlerRaises ==
    /\ guiPc = "connecting"
    /\ Len(statq) < MaxQueue
    /\ statq' = Append(statq, "gui_connected")
    /\ sio_connected' = TRUE
    /\ owed' = NoOwed
    /\ guiPc' = "idle"
    /\ UNCHANGED <<dbVars, dedupeVars, workerVars, guiq, guiJob, wire, _connecting, now,
                   sunkOld, lastLet, lastFail, prefs, timer_active, re_btn, missing_pending,
                   coolVars, lockVars>>

\* a failed attempt whose except branch leaves _connecting set
Mut_SioConnectRaises ==
    /\ guiPc = "connecting"
    /\ re_btn' = TRUE
    /\ timer_active' = TRUE
    /\ guiPc' = "idle"
    /\ UNCHANGED <<dbVars, dedupeVars, workerVars, guiq, guiJob, wire, sioVars, now,
                   histVars, prefs, statq, missing_pending,
                   coolVars, lockVars>>

\* sio.connect fails: the connect_error handler runs (sio.connected is false), then
\* the except branch of _connect_socket
SioConnectRaises ==
    /\ guiPc = "connecting"
    /\ re_btn' = TRUE
    /\ timer_active' = TRUE
    /\ _connecting' = FALSE
    /\ guiPc' = "idle"
    /\ UNCHANGED <<dbVars, dedupeVars, workerVars, guiq, guiJob, wire, sio_connected, now,
                   histVars, prefs, statq, missing_pending,
                   coolVars, lockVars>>

\* the transport drops (peer or network): the disconnect handler runs
SioDisconnect ==
    /\ sio_connected
    /\ DisconnectHandlerOn(FALSE)
    /\ UNCHANGED <<dbVars, dedupeVars, workerVars, guiVars, _connecting, now, sunkOld,
                   lastLet, lastFail, prefs, re_btn, missing_pending,
                   coolVars, lockVars>>

\* ------------------------------------------------- single-instance file lock
\* the processes (by pid) that start the agent on a host without pywin32
Procs == 1..NumProcs

\* all the state of one agent process
agentVars == <<dbVars, dedupeVars, workerVars, guiVars, sioVars, histVars, uiVars, now>>

\* _LOCK_FILE does not exist
NoFile == [owner |-> 0, text |-> 0]

\* the file os.open(..., O_CREAT | O_EXCL) of process p has just created: empty
Created(p) == [owner |-> p, text |-> 0]

\* utils._pid_alive
_pid_alive(pid) == lpc[pid] \notin {"unborn", "dead"}

\* a copy of the program is started and enters ensure_single_instance
StartProcess(p) ==
    /\ lpc[p] = "unborn"
    /\ lpc' = [lpc EXCEPT ![p] = "open"]
    /\ UNCHANGED <<lock_file, existing_pid, agentVars>>

\* os.open(_LOCK_FILE, O_CREAT | O_EXCL | O_WRONLY): creates the file, or raises
\* FileExistsError
LockOpen(p) ==
    /\ lpc[p] = "open"
    /\ IF lock_file = NoFile
       THEN /\ lock_file' = Created(p)
            /\ lpc' = [lpc EXCEPT ![p] = "write"]
       ELSE /\ lock_file' = lock_file
            /\ lpc' = [lpc EXCEPT ![p] = "read"]
    /\ UNCHANGED <<existing_pid, agentVars>>

\* os.write(fd, str(pid)); os.close(fd); break; atexit.register; return True. The
\* write goes to the file p created, which is _LOCK_FILE unless it was unlinked since
LockWrite(p) ==
    /\ lpc[p] = "write"
    /\ lock_file' = IF lock_file.owner = p THEN [owner |-> p, text |-> p] ELSE lock_file
    /\ lpc' = [lpc EXCEPT ![p] = "running"]
    /\ UNCHANGED <<existing_pid, agentVars>>

\* existing_pid = int(_LOCK_FILE.read_text()), None when the file is gone or its text
\* is not a number (still empty)
LockRead(p) ==
    /\ lpc[p] = "read"
    /\ existing_pid' = [existing_pid EXCEPT ![p] =
                            IF lock_file = NoFile \/ lock_file.text = 0
                            THEN None ELSE lock_file.text]
    /\ lpc' = [lpc EXCEPT ![p] = "check"]
    /\ UNCHANGED <<lock_file, agentVars>>

\* `if existing_pid and _pid_alive(existing_pid): return False`
LockCheck(p) ==
    /\ lpc[p] = "check"
    /\ IF Truthy(existing_pid[p]) /\ _pid_alive(existing_pid[p])
       THEN lpc' = [lpc EXCEPT ![p] = "refused"]
       ELSE lpc' = [lpc EXCEPT ![p] = "unlink"]
    /\ UNCHANGED <<lock_file, existing_pid, agentVars>>

\* _LOCK_FILE.unlink(), FileNotFoundError ignored; then the loop tries os.open again
LockUnlink(p) ==
    /\ lpc[p] = "unlink"
    /\ lock_file' = NoFile
    /\ lpc' = [lpc EXCEPT ![p] = "open"]
    /\ UNCHANGED <<existing_pid, agentVars>>

\* the process ends: a holder's exit runs _cleanup (atexit), which removes the file
\* when it holds this pid; a refused copy exits without cleanup
ExitProcess(p) ==
    /\ lpc[p] \in {"running", "refused"}
    /\ lock_file' = IF lpc[p] = "running" /\ lock_file # NoFile /\ lock_file.text = p
                    THEN NoFile ELSE lock_file
    /\ lpc' = [lpc EXCEPT ![p] = "dead"]
    /\ UNCHANGED <<existing_pid, agentVars>>

\* the process is killed: no atexit handler runs
KillProcess(p) ==
    /\ lpc[p] \notin {"unborn", "dead"}
    /\ lpc' = [lpc EXCEPT ![p] = "dead"]
    /\ UNCHANGED <<lock_file, existing_pid, agentVars>>

\* ---------------------------------------------------------------- environment
\* job_ids the Print Sink has printed successfully, as far as this process knows:
\* cb(True, ...) was entered for them
Sunk ==
    (_seen_jobs \cup StoredJobIds \cup
     {job[w].job_id : w \in {v \in Workers :
                                pc[v] \in {"cb_ok", "cb_ok_locked", "store", "ack",
                                           "cb_exc", "cb_exc_locked"}}}) \ {None}

NeverLet == [d \in FpJobs \cup RetryJobs |-> 0]

NeverFailed == [d \in RetryJobs |-> 0]

\* the process ends (at any point) and is started again: MainWindow.__init__ with
\* _init_db loading _seen_jobs from the table
Restart ==
    /\ _seen_jobs' = StoredJobIds
    /\ _inflight' = {}
    /\ _recent_fingerprints' = <<>>
    /\ _job_lock' = 0
    /\ pc' = [w \in Workers |-> "idle"]
    /\ job' = [w \in Workers |-> NoJob]
    /\ racing' = {}
    /\ guiq' = <<ConnectEvent>>
    /\ guiPc' = "idle"
    /\ guiJob' = None
    /\ wire' = <<>>
    /\ sio_connected' = FALSE
    /\ _connecting' = FALSE
    /\ sunkOld' = sunkOld \cup Sunk
    /\ owed' = NoOwed
    /\ lastLet' = NeverLet
    /\ lastFail' = NeverFailed
    /\ timer_active' = FALSE
    /\ re_btn' = TRUE
    /\ statq' = <<>>
    /\ missing_pending' = 0
    /\ missing_btn' = TRUE
    /\ cooldowns' = <<>>
    /\ UNCHANGED <<prints, now, prefs, lockVars>>

\* time passes
Tick ==
    /\ \E t \in Times : t > now /\ now' = t
    /\ UNCHANGED <<dbVars, dedupeVars, workerVars, guiVars, sioVars, histVars,
                   uiVars, lockVars>>

\* ------------------------------------------------------------ specifications
Init ==
    /\ prints = <<>>
    /\ _seen_jobs = {}
    /\ _inflight = {}
    /\ _recent_fingerprints = <<>>
    /\ _job_lock = 0
    /\ pc = [w \in Workers |-> "idle"]
    /\ job = [w \in Workers |-> NoJob]
    /\ racing = {}
    /\ guiq = <<ConnectEvent>>
    /\ guiPc = "idle"
    /\ guiJob = None
    /\ wire = <<>>
    /\ sio_connected = FALSE
    /\ _connecting = FALSE
    /\ now = 1
    /\ sunkOld = {}
    /\ owed = NoOwed
    /\ lastLet = NeverLet
    /\ lastFail = NeverFailed
    /\ prefs \in {NoKey, [api_key |-> "key1", server_url |-> SERVER_URL]}
    /\ timer_active = FALSE
    /\ re_btn = TRUE
    /\ statq = <<>>
    /\ missing_pending = 0
    /\ missing_btn = TRUE
    /\ cooldowns = <<>>
    /\ lock_file = NoFile
    /\ lpc = [p \in Procs |-> "unborn"]
    /\ existing_pid = [p \in Procs |-> None]

\* the worker threads, for print_label events drawn from Jobs
Pipeline(Jobs) ==
    \/ \E w \in Workers : \E d \in Jobs : on_print_label(w, d)
    \/ \E w \in Workers : AcquireJobLock(w)
    \/ \E w \in Workers : Dedupe(w)
    \/ \E w \in Workers : Return(w)
    \/ \E w \in Workers : PrintZpl(w)
    \/ \E w \in Workers : CbAcquireJobLock(w)
    \/ \E w \in Workers : CbMarkSeen(w)
    \/ \E w \in Workers : _store_print(w)
    \/ \E w \in Workers : StorePrintRaises(w)
    \/ \E w \in Workers : CbRelease(w)

\* the connection, as driven by the GUI thread, the socket.io client and the user
Connection ==
    \/ GuiConnectSocket
    \/ _manual_reconnect
    \/ _reconnect_tick
    \/ SioConnect
    \/ SioConnectRaises
    \/ ConnectHandlerRaises
    \/ SioDisconnect

\* the calls queued to the GUI thread by the connect and disconnect handlers, and the
\* one-shot timers of _request_missing
Slots ==
    \/ _on_gui_connected
    \/ _on_gui_disconnected
    \/ GuiRequestMissing
    \/ CooldownFires

\* the acknowledgment path
Acks ==
    \/ \E w \in Workers : CbAckSig(w)
    \/ GuiEmitAck
    \/ EmitAckUpdate
    \/ EmitAckLog

\* the idle GUI thread has a queued status slot, a queued request or a pending
\* re-enabling of missing_btn to run; none of these touches the state of the workers
SlotsReady == guiPc = "idle" /\ (statq # <<>> \/ missing_pending > 0 \/ cooldowns # <<>>)

\* the agent receiving jobs that carry an identifier, at one instant of the clock; the
\* idle GUI thread runs its queued slots before the other threads take their next step
Next == Slots \/ (~SlotsReady /\ (Pipeline(IdJobs) \/ Acks \/ Connection \/ Restart))

Spec == Init /\ [][Next]_vars

\* the agent receiving jobs without identifier while time passes
NextFp == Slots \/ (~SlotsReady /\ (Pipeline(FpJobs) \/ Connection \/ Restart \/ Tick))

SpecFp == Init /\ [][NextFp]_vars

\* the connection alone, with the user saving settings in the options dialog
NextConn ==
    \/ Connection
    \/ Slots
    \/ \E p \in Saved : _open_options(p)
    \/ \E menu \in BOOLEAN : ManualRequestMissing(menu)
    \/ Restart

SpecConn == Init /\ [][NextConn]_vars

\* one lifetime of the agent (no restart) receiving jobs that carry an identifier,
\* with the clock advancing
NextLife == Slots \/ (~SlotsReady /\ (Pipeline(IdJobs) \/ Acks \/ Connection \/ Tick))

SpecLife == Init /\ [][NextLife]_vars

\* the agent receiving one id-less job again and again, with the clock advancing
NextRetry ==
    Slots \/ (~SlotsReady /\ (Pipeline(RetryJobs) \/ Connection \/ Restart \/ Tick))

SpecRetry == Init /\ [][NextRetry]_vars

\* copies of the program starting, taking the file lock and ending
NextLock ==
    \/ \E p \in Procs : StartProcess(p)
    \/ \E p \in Procs : LockOpen(p)
    \/ \E p \in Procs : LockWrite(p)
    \/ \E p \in Procs : LockRead(p)
    \/ \E p \in Procs : LockCheck(p)
    \/ \E p \in Procs : LockUnlink(p)
    \/ \E p \in Procs : ExitProcess(p)
    \/ \E p \in Procs : KillProcess(p)

SpecLock == Init /\ [][NextLock]_vars

\* ===================================================================== claims
JobIds == 0..MaxJobId

\* w has passed the dedupe section and is in (or about to enter) its Print Sink call
InSink(w) == pc[w] = "print"

\* w holds the reservation of its job_id
HoldsReservation(w) ==
    pc[w] \in {"print", "cb_ok", "cb_fail", "cb_ok_locked", "cb_fail_locked"}

\* C1 (as claimed): a handle_job started for job_id j while another worker has j
\* reserved and is still in its Print Sink call never invokes the Print Sink, under
\* every interleaving.
C1_Original == \A w \in racing : ~InSink(w)

\* C1 (amended): while a worker is in the Print Sink for a non-zero job_id j, j is not
\* yet marked seen and no other worker holds a reservation of j: a second handle_job
\* whose dedupe check runs while j is reserved or after the print succeeded returns
\* without printing.
C1_Amended ==
    \A w \in Workers :
        (InSink(w) /\ Truthy(job[w].job_id)) =>
            /\ job[w].job_id \notin _seen_jobs
            /\ \A v \in Workers \ {w} :
                   job[v].job_id = job[w].job_id => ~HoldsReservation(v)

\* C1 witness: a worker started during the other worker's Print Sink call stands at
\* its "ignored (already in-flight)" return while the other is still printing
C1_Witness ==
    \E v, w \in Workers :
        /\ w \in racing
        /\ pc[w] = "ignored_inflight"
        /\ InSink(v)
        /\ job[v].job_id = job[w].job_id

\* C2 (as claimed): once the Print Sink has succeeded for job_id j and the process has
\* restarted, no handle_job for j passes the dedupe section towards the Print Sink, and
\* a handle_job for j that is not yet acknowledged re-emits the acknowledgment,
\* wherever the restart fell after the successful print.
C2_Original ==
    [][\A w \in Workers :
          (Dedupe(w) /\ job[w].job_id \in sunkOld) =>
              /\ pc'[w] # "print"
              /\ ~_is_job_acked(job[w].job_id) => pc'[w] = "ignored_ack_pending"]_vars

\* C3 (as claimed): an id-less job is suppressed when it arrives less than 60 seconds
\* after the most recent identical job that was let through, without the suppression
\* moving the window, and it is let through when it arrives more than 60 seconds after it.
C3_Original ==
    [][\A w \in Workers :
          (Dedupe(w) /\ ~Truthy(job[w].job_id) /\ job[w] \in DOMAIN lastLet
                     /\ lastLet[job[w]] # 0) =>
              /\ now - lastLet[job[w]] < _fingerprint_ttl =>
                     pc'[w] = "ignored_duplicate" /\ lastLet' = lastLet
              /\ now - lastLet[job[w]] > _fingerprint_ttl => pc'[w] = "print"]_vars

\* C4 (as claimed): an id-less job is suppressed as a duplicate only if a job with the
\* identical (invoice, copies, payload) was let through within the last 60 seconds.
C4_Original ==
    [][\A w \in Workers :
          (Dedupe(w) /\ ~Truthy(job[w].job_id) /\ job[w] \in DOMAIN lastLet
                     /\ pc'[w] = "ignored_duplicate") =>
              /\ lastLet[job[w]] # 0
              /\ now - lastLet[job[w]] <= _fingerprint_ttl]_vars

\* C5 (as claimed): when the agent is connected and the emit call returns, ack(job_id)
\* puts exactly one print_label_ack message on the wire, with the payload
\* {job_id: <job_id>, status: "printed"}.
C5_Original ==
    [][\A j \in JobIds :
          (GuiEmitAck /\ Head(guiq).arg = j /\ sio_connected /\ guiPc' # "ack_error") =>
              wire' = <<[event |-> "print_label_ack",
                         data |-> [job_id |-> j, status |-> "printed"]]>>]_vars

C7_AckNotSent ==
    [][/\ \A j \in JobIds :
              (GuiEmitAck /\ Head(guiq).arg = j
                          /\ (~sio_connected \/ guiPc' = "ack_error")) =>
                  /\ wire' = <<>>
                  /\ guiPc' \in {"ack_pending", "ack_error", "idle"}
                  /\ prints' = prints
                  /\ pc' = pc
                  /\ \A i \in RowsOf(j) :
                         prints[i].acked = 0 =>
                             \E k \in DOMAIN PendingAcks' : PendingAcks'[k] = j
       /\ EmitAckLog =>
              guiPc' = "idle" /\ prints' = prints /\ pc' = pc /\ wire' = <<>>]_vars

\* C7 witness: the emit call has raised for a job whose record is unacknowledged
C7_Witness ==
    /\ guiPc = "ack_error"
    /\ sio_connected
    /\ \E i \in RowsOf(guiJob) : prints[i].acked = 0

\* the connection is up and the GUI thread has handled every queued ack_sig delivery
Quiescent ==
    /\ sio_connected
    /\ guiPc = "idle"
    /\ \A i \in DOMAIN guiq : guiq[i].sig # "ack_sig"

\* C8 (as claimed): the connect handler starts no print, and once the deliveries it
\* queued are handled, with the connection still up, sio.emit has been called for the
\* job_id of every record that had a non-null job_id and acked=0 at the connect.
C8_Original ==
    [][/\ SioConnect => pc' = pc
       /\ Quiescent' => \A j \in DOMAIN owed' : owed'[j] <= 0]_vars

\* C9 (as claimed): after a connect that found N records with non-null job_id and
\* acked=0, exactly N acknowledgment emissions occur (per job_id: as many as it had
\* such records, not fewer, not more), and no handle_job for one of those job_ids
\* passes the dedupe section towards the Print Sink.
C9_Original ==
    [][/\ Quiescent' => \A j \in DOMAIN owed' : owed'[j] = 0
       /\ \A w \in Workers :
              (Dedupe(w) /\ job[w].job_id \in DOMAIN owed) => pc'[w] # "print"]_vars

C11_Original ==
    \A i \in DOMAIN wire :
        wire[i].event = "print_label_ack" => RowsOf(wire[i].data.job_id) # {}

\* C12: no job_id is in _inflight and in _seen_jobs at once; the check-and-reserve
\* and the move from reserved to seen are each one step of the worker that holds
\* _job_lock, and the move takes j out of _inflight as it puts it into _seen_jobs.
C12_ReservedXorSeen ==
    [][/\ (_inflight \cap _seen_jobs)' = {}
       /\ \A w \in Workers :
              /\ Dedupe(w) => _job_lock = w
              /\ (CbMarkSeen(w) /\ Truthy(job[w].job_id)) =>
                     /\ _job_lock = w
                     /\ job[w].job_id \in _inflight
                     /\ job[w].job_id \notin _inflight'
                     /\ job[w].job_id \in _seen_jobs']_vars

\* C12 witness: a worker has just moved its job_id from reserved to seen while a
\* second delivery of the same job waits for _job_lock
C12_Witness ==
    \E v, w \in Workers :
        /\ pc[w] = "store"
        /\ job[w].job_id \in _seen_jobs
        /\ job[w].job_id \notin _inflight
        /\ pc[v] = "start"
        /\ job[v].job_id = job[w].job_id

\* a call of _connect_socket on the GUI thread: the start-up call, the reload button,
\* the reconnect timer, or the options dialog being accepted
ConnectCall ==
    \/ GuiConnectSocket
    \/ _manual_reconnect
    \/ _reconnect_tick /\ ~sio_connected /\ ~_connecting /\ Configured(prefs)
    \/ \E p \in Saved : _open_options(p)

\* C13 (as claimed): a call of connect() made while an attempt is in flight
\* (_connecting is set) is rejected: it starts no attempt and leaves the connection
\* state and an established connection as they were.
C13_Original ==
    [][(ConnectCall /\ _connecting) =>
           /\ guiPc' # "connecting"
           /\ sio_connected' = sio_connected
           /\ _connecting' = _connecting]_vars

\* C14 (as claimed): a call of connect() made while connected, with endpoint and
\* credential unchanged, is a no-op: the connection stays up, no disconnect event is
\* raised and no attempt is started.
C14_Original ==
    [][(ConnectCall /\ sio_connected /\ prefs' = prefs) =>
           /\ sio_connected'
           /\ statq' = statq
           /\ guiPc' # "connecting"]_vars

\* C15: when sio.connect fails, _connect_socket returns to the event loop (nothing
\* propagates), the agent is disconnected and _connecting is cleared; and a call of
\* connect() made with _connecting clear and settings present starts an attempt.
C15_FailedAttemptClears ==
    [][/\ SioConnectRaises =>
              /\ guiPc' = "idle"
              /\ ~sio_connected'
              /\ ~_connecting'
       /\ (ConnectCall /\ ~_connecting /\ Configured(prefs')) =>
              /\ guiPc' = "connecting"
              /\ _connecting']_vars

\* C15 witness: an attempt has failed (timer armed by connect_error, nothing queued,
\* never connected since the last request) and the agent is back in the event loop
\* with _connecting clear
C15_Witness ==
    /\ guiPc = "idle"
    /\ ~sio_connected
    /\ ~_connecting
    /\ timer_active
    /\ re_btn
    /\ Configured(prefs)
    /\ statq = <<>>
    /\ guiq = <<>>
    /\ missing_pending = 0

\* C16 (as claimed): a disconnect event leaves the agent disconnected with the
\* reconnect timer running, and the running timer is not stopped while the agent stays
\* disconnected (it runs until a connect succeeds or the process exits).
C16_Original ==
    [][/\ SioDisconnect => (~sio_connected' /\ timer_active')
       /\ (~sio_connected /\ timer_active /\ ~sio_connected') =>
              (timer_active' \/ Restart)]_vars

\* C17 (as claimed): no terminal state. Whenever the agent is disconnected after a
\* failed connect or a dropped connection, with api_key and server_url configured and
\* the GUI thread idle with nothing queued, the next reconnect tick starts a connect
\* attempt: the timer is running and _connecting is clear.
C17_Original ==
    (/\ ~sio_connected
     /\ Configured(prefs)
     /\ guiPc = "idle"
     /\ guiq = <<>>
     /\ statq = <<>>) => (timer_active /\ ~_connecting)

C19_Original ==
    [][\A p \in Saved :
           (_open_options(p) /\ p # prefs) =>
               /\ ~sio_connected'
               /\ Configured(p) => guiPc' = "connecting"]_vars

\* C20 (as claimed): every successful connect leaves one call of request_missing()
\* for the GUI thread to run; the call sends nothing when the agent is not connected
\* and otherwise at most the one message request_missing_prints {api_key: configured
\* key}.
C20_Original ==
    [][/\ (SioConnect \/ ConnectHandlerRaises) => missing_pending' = missing_pending + 1
       /\ GuiRequestMissing =>
              /\ ~sio_connected => wire' = <<>>
              /\ wire' \in {<<>>, <<MissingMessage(prefs.api_key)>>}]_vars

\* a request_missing_prints message was sent less than 2000 ms ago: the re-enabling
\* scheduled together with it has not fired yet
InCooldown == \E i \in DOMAIN cooldowns : cooldowns[i]

\* C21 (as claimed): while a request was sent less than 2 seconds ago, no manual
\* trigger (missing_btn or the Print Missing menu action) sends another
\* request_missing_prints message.
C21_Original ==
    [][\A menu \in BOOLEAN :
           (ManualRequestMissing(menu) /\ InCooldown) => wire' = <<>>]_vars

\* C22 (as claimed): when _store_print raises after a successful print, the exception
\* does not leave _handle_print_job: it is caught and turned into the log signal of
\* cb(False, ...), and the job's reservation is no longer held.
C22_Original ==
    [][\A w \in Workers :
           StorePrintRaises(w) =>
               /\ pc'[w] = "cb_exc"
               /\ Truthy(job[w].job_id) => job[w].job_id \notin _inflight']_vars

\* the processes that are alive and have received True from ensure_single_instance
Holders == {p \in Procs : lpc[p] = "running"}

\* C23 (as claimed): among the processes alive at the same time at most one has
\* received True, and a call that finds the pid of a live holder in the lock file
\* returns False.
C23_Original ==
    Cardinality(Holders) <= 1


\* the fingerprint of the job worker w is handling
FingerprintOf(w) == _make_fingerprint(job[w].invoice, job[w].pcs, job[w].data)

C25_Original ==
    [][/\ \A j \in JobIds :
              (/\ GuiEmitAck
               /\ Head(guiq).arg = j
               /\ RowsOf(j) # {}
               /\ ~_is_job_acked(j)
               /\ sio_connected
               /\ guiPc' # "ack_error") =>
                  guiPc' = "ack_update" /\ guiJob' = j
       /\ EmitAckUpdate => \A i \in RowsOf(guiJob) : prints'[i].acked # 0
       /\ \A i \in DOMAIN prints :
              prints[i].acked # 0 => i \in DOMAIN prints' /\ prints'[i].acked # 0]_vars


\* C26 (as claimed): within one process lifetime and for every non-null job_id j, the
\* Print Sink succeeds for j at most once (no Print Sink call succeeds for a j whose
\* earlier success is on record: j marked seen, stored, or between the two) and the
\* log holds at most one record with job_id j.
C26_Original ==
    [][/\ \A w \in Workers :
              (PrintZpl(w) /\ pc'[w] = "cb_ok" /\ job[w].job_id # None) =>
                  job[w].job_id \notin Sunk
       /\ \A j \in JobIds : Cardinality({i \in DOMAIN prints' : prints'[i].job_id = j}) <= 1]_vars


\* w is inside one of the `with self._job_lock:` blocks
InLockedBlock(w) == pc[w] \in {"locked", "cb_ok_locked", "cb_fail_locked", "cb_exc_locked"}

\* C27: a handle_job invocation never holds the dedupe mutex while it is in the Print
\* Sink, nor anywhere outside its `with` blocks (every path releases it); every
\* reservation belongs to an invocation that is between its reservation and the end of
\* its print; so whenever no handle_job invocation is in progress the Reservation set
\* is empty and the mutex is free.
C27_MutexAndReservations ==
    /\ \A w \in Workers : InSink(w) => _job_lock # w
    /\ \A w \in Workers : ~InLockedBlock(w) => _job_lock # w
    /\ \A j \in _inflight :
           \E w \in Workers : job[w].job_id = j /\ HoldsReservation(w)
    /\ (\A w \in Workers : pc[w] = "idle") => _inflight = {} /\ _job_lock = 0

\* a reserved job is in the Print Sink while the other invocation, a redelivery of the
\* same job, is inside the dedupe section holding the mutex
C27_Witness ==
    \E v, w \in Workers :
        /\ v # w
        /\ InSink(v)
        /\ job[v].job_id \in _inflight
        /\ job[w].job_id = job[v].job_id
        /\ pc[w] = "locked"
        /\ _job_lock = w

\* C28 (as claimed): for a job without job_id the fingerprint is recorded before the
\* Print Sink is called and is not removed when the print fails, and an identical
\* id-less job handled less than 60 seconds after a failed print is suppressed without
\* a Print Sink call.
C28_Original ==
    [][\A w \in Workers :
          /\ (Dedupe(w) /\ ~Truthy(job[w].job_id) /\ pc'[w] = "print") =>
                 /\ FingerprintOf(w) \in DOMAIN _recent_fingerprints'
                 /\ _recent_fingerprints'[FingerprintOf(w)] = now
          /\ (CbRelease(w) /\ ~Truthy(job[w].job_id)) =>
                 _recent_fingerprints' = _recent_fingerprints
          /\ (Dedupe(w) /\ job[w] \in DOMAIN lastFail /\ lastFail[job[w]] # 0
                        /\ now - lastFail[job[w]] < _fingerprint_ttl) =>
                 pc'[w] = "ignored_duplicate"]_vars

\* C28 (amended): the 60 seconds run from the moment the fingerprint was recorded (the
\* failed call's own dedupe check, in this process lifetime), not from the failure.
C28_Amended ==
    [][\A w \in Workers :
          /\ (Dedupe(w) /\ ~Truthy(job[w].job_id) /\ pc'[w] = "print") =>
                 /\ FingerprintOf(w) \in DOMAIN _recent_fingerprints'
                 /\ _recent_fingerprints'[FingerprintOf(w)] = now
          /\ (CbRelease(w) /\ ~Truthy(job[w].job_id)) =>
                 _recent_fingerprints' = _recent_fingerprints
          /\ (Dedupe(w) /\ job[w] \in DOMAIN lastFail /\ lastFail[job[w]] # 0
                        /\ now - lastLet[job[w]] < _fingerprint_ttl) =>
                 pc'[w] = "ignored_duplicate"]_vars

\* a redelivery stands at its "duplicate" return after the print of the identical job
\* failed earlier, at a later instant than the one at which it was let through
C28_Witness ==
    \E w \in Workers :
        /\ pc[w] = "ignored_duplicate"
        /\ job[w] \in DOMAIN lastFail
        /\ lastFail[job[w]] > lastLet[job[w]]
        /\ now > lastFail[job[w]]
        /\ \A v \in Workers \ {w} : pc[v] = "idle"

\* what handle_job, ack and the flush do with job_id 0, whatever the seen set holds:
\* dedupe by fingerprint, no reservation, a record with job_id 0 and acked=0, nothing
\* emitted by ack(0), one ack_sig(0) per such record from every flush, and no such
\* record ever acknowledged
ZeroAsIdLess ==
    /\ 0 \notin _inflight'
    /\ \A w \in Workers :
           (Dedupe(w) /\ job[w].job_id = 0) =>
               /\ pc'[w] = IF IsDuplicate(FingerprintOf(w))
                           THEN "ignored_duplicate" ELSE "print"
               /\ FingerprintOf(w) \in DOMAIN _recent_fingerprints'
    /\ \A w \in Workers :
           (_store_print(w) /\ job[w].job_id = 0) =>
               /\ Len(prints') = Len(prints) + 1
               /\ prints'[Len(prints')].job_id = 0
               /\ prints'[Len(prints')].acked = 0
    /\ (GuiEmitAck /\ Head(guiq).arg = 0) =>
           wire' = <<>> /\ prints' = prints /\ guiPc' = "idle"
    /\ SioConnect =>
           Cardinality({k \in DOMAIN guiq' : k > Len(guiq) /\ guiq'[k] = AckEvent(0)})
               = Cardinality(RowsOf(0))
    /\ \A i \in DOMAIN prints' : prints'[i].job_id = 0 => prints'[i].acked = 0

\* C29 (as claimed): a job with job_id 0 is handled as a job without identifier: 0 is
\* never reserved and never in the seen set, the job is deduplicated by fingerprint,
\* its record has job_id 0 and acked=0, ack(0) emits nothing, every flush selects the
\* record and it never becomes acknowledged.
C29_Original ==
    [][ZeroAsIdLess /\ 0 \notin _seen_jobs']_vars

\* C29 (amended): as claimed, except that handle_job never adds 0 to the seen set while
\* the start-up load does: 0 is in the seen set only when a record with job_id 0 is in
\* the table, and the dedupe of job 0 does not depend on it.
C29_Amended ==
    [][/\ ZeroAsIdLess
       /\ \A w \in Workers : CbMarkSeen(w) => (0 \in _seen_jobs' <=> 0 \in _seen_jobs)
       /\ 0 \in _seen_jobs' => 0 \in StoredJobIds']_vars

\* job 0 is in the Print Sink again in a lifetime whose seen set holds 0, while its
\* stored record is still unacknowledged after a flush whose ack_sig(0) was handled
C29_Witness ==
    /\ 0 \in _seen_jobs
    /\ \E w \in Workers : job[w].job_id = 0 /\ InSink(w)
    /\ \E i \in DOMAIN prints : prints[i].job_id = 0 /\ prints[i].acked = 0
    /\ 0 \in DOMAIN owed
    /\ owed[0] > 0
    /\ Quiescent

====
